---- MODULE Spec2Model ----
(***************************************************************************)
(* Tank Battle - Player vs AI (src/shoting_game.py).                       *)
(*                                                                         *)
(* The module models the Tank class, the QLearningAgent class and the     *)
(* frame loop of main().  Five specifications are defined over the same   *)
(* variables:                                                              *)
(*   Spec       main() from its initial state, every key combination and  *)
(*              every outcome of the agent's random draws, a bounded      *)
(*              number of frames;                                          *)
(*   SpecDuel   main() from its initial state, driven by a scripted       *)
(*              player and a restricted set of random outcomes, so that   *)
(*              hits, scoring and the win check are reached;              *)
(*   SpecEdge   main() from its initial state, with both tanks crossing   *)
(*              the field to the opposing edge rows and firing there;     *)
(*   SpecTank   the two Tank objects of main(), driven by arbitrary       *)
(*              calls of move / shoot / update_bullets;                   *)
(*   SpecAgent  the QLearningAgent object, driven by arbitrary calls of   *)
(*              choose_action / learn.                                    *)
(***************************************************************************)
EXTENDS Integers, Sequences, FiniteSets, TLC

VARIABLES
    player,      \* main: player = Tank(5, 9, True)
    ai,          \* main: ai = Tank(5, 0)
    player_pts,  \* main: player_pts
    ai_pts,      \* main: ai_pts
    run,         \* main: run
    winner,      \* main: winner ("" until the win check assigns it)
    state,       \* main: state (the key captured before the AI acts)
    action,      \* main: action (the action chosen in this frame)
    q_table,     \* agent.q_table
    now,         \* pygame.time.get_ticks(), in ms
    pc,          \* position of main() inside the frame loop
    frame,       \* number of loop iterations started
    call,        \* SpecTank / SpecAgent: the last method call and its arguments
    ncalls       \* SpecTank / SpecAgent: number of method calls made

vars == <<player, ai, player_pts, ai_pts, run, winner, state, action,
          q_table, now, pc, frame, call, ncalls>>

-----------------------------------------------------------------------------
(* Program constants *)

GRID_SIZE == 10

WIN_SCORE == 10

COOLDOWN_MS == 1000

\* clock.tick(10): a frame lasts at least 1000 // 10 ms
FRAME_MS == 100

\* ACTIONS of the source (ACTIONS is a reserved word of TLA+)
Actions == <<"UP", "DOWN", "LEFT", "RIGHT", "SHOOT">>

ActionSet == {Actions[i] : i \in 1..Len(Actions)}

\* pygame.K_LEFT, K_RIGHT, K_UP, K_DOWN, K_SPACE as read by main()
KEYS == {"K_LEFT", "K_RIGHT", "K_UP", "K_DOWN", "K_SPACE"}

-----------------------------------------------------------------------------
(* Bounds of the model *)

\* frames explored by Spec
MaxFrames == 1

\* frames explored by SpecDuel
MaxDuelFrames == 18

\* frames explored by SpecEdge
MaxEdgeFrames == 11

\* method calls explored by SpecTank
MaxCalls == 6

\* method calls explored by SpecAgent
MaxLearn == 2

-----------------------------------------------------------------------------
(* Exact rational numbers <<numerator, denominator>>, denominator > 0, in  *)
(* lowest terms; they stand for the numeric values of the Q-table.         *)

Abs(n) == IF n < 0 THEN -n ELSE n

RECURSIVE GCD(_, _)
GCD(a, b) == IF b = 0 THEN a ELSE GCD(b, a % b)

Norm(r) ==
    LET g == GCD(Abs(r[1]), r[2])
    IN  <<r[1] \div g, r[2] \div g>>

LCM(a, b) == (a \div GCD(a, b)) * b

Zero == <<0, 1>>

FromInt(n) == <<n, 1>>

RAdd(a, b) ==
    LET L == LCM(a[2], b[2])
    IN  Norm(<<a[1] * (L \div a[2]) + b[1] * (L \div b[2]), L>>)

RNeg(a) == <<-a[1], a[2]>>

RSub(a, b) == RAdd(a, RNeg(b))

RMul(a, b) ==
    LET g1 == GCD(Abs(a[1]), b[2])
        g2 == GCD(Abs(b[1]), a[2])
        h1 == IF g1 = 0 THEN 1 ELSE g1
        h2 == IF g2 = 0 THEN 1 ELSE g2
    IN  Norm(<<(a[1] \div h1) * (b[1] \div h2), (a[2] \div h2) * (b[2] \div h1)>>)

RLess(a, b) ==
    LET L == LCM(a[2], b[2])
    IN  a[1] * (L \div a[2]) < b[1] * (L \div b[2])

RLeq(a, b) == a = b \/ RLess(a, b)

LEARNING_RATE == <<1, 10>>

DISCOUNT == <<19, 20>>

-----------------------------------------------------------------------------
(* class Tank *)

\* a constructor whose timestamp lets the tank fire at once
Tank_ready(x, y, is_player) ==
    [x |-> x, y |-> y, is_player |-> is_player,
     bullets |-> <<>>, last_shot_time |-> -COOLDOWN_MS]

Tank(x, y, is_player) ==
    [x |-> x, y |-> y, is_player |-> is_player,
     bullets |-> <<>>, last_shot_time |-> 0]

\* move with the right-edge test off by one (x < GRID_SIZE)
move_off_by_one(t, direction) ==
    LET t1 == IF direction = "UP" /\ t.y > 0
              THEN [t EXCEPT !.y = @ - 1] ELSE t
        t2 == IF direction = "DOWN" /\ t1.y < GRID_SIZE - 1
              THEN [t1 EXCEPT !.y = @ + 1] ELSE t1
        t3 == IF direction = "LEFT" /\ t2.x > 0
              THEN [t2 EXCEPT !.x = @ - 1] ELSE t2
        t4 == IF direction = "RIGHT" /\ t3.x < GRID_SIZE
              THEN [t3 EXCEPT !.x = @ + 1] ELSE t3
    IN  t4

\* move whose LEFT test is off by one (x > 1): the tank never enters column 0
move_left_stuck(t, direction) ==
    LET t1 == IF direction = "UP" /\ t.y > 0
              THEN [t EXCEPT !.y = @ - 1] ELSE t
        t2 == IF direction = "DOWN" /\ t1.y < GRID_SIZE - 1
              THEN [t1 EXCEPT !.y = @ + 1] ELSE t1
        t3 == IF direction = "LEFT" /\ t2.x > 1
              THEN [t2 EXCEPT !.x = @ - 1] ELSE t2
        t4 == IF direction = "RIGHT" /\ t3.x < GRID_SIZE - 1
              THEN [t3 EXCEPT !.x = @ + 1] ELSE t3
    IN  t4

move(t, direction) ==
    LET t1 == IF direction = "UP" /\ t.y > 0
              THEN [t EXCEPT !.y = @ - 1] ELSE t
        t2 == IF direction = "DOWN" /\ t1.y < GRID_SIZE - 1
              THEN [t1 EXCEPT !.y = @ + 1] ELSE t1
        t3 == IF direction = "LEFT" /\ t2.x > 0
              THEN [t2 EXCEPT !.x = @ - 1] ELSE t2
        t4 == IF direction = "RIGHT" /\ t3.x < GRID_SIZE - 1
              THEN [t3 EXCEPT !.x = @ + 1] ELSE t3
    IN  t4

\* can_shoot that compares the elapsed time with 0 instead of COOLDOWN_MS
can_shoot_no_cooldown(t, ticks) == ticks - t.last_shot_time >= 0

\* ticks: the value pygame.time.get_ticks() returns to can_shoot
can_shoot(t, ticks) == ticks - t.last_shot_time >= COOLDOWN_MS

\* shoot that creates the projectile in the tank's own cell
shoot_own_cell(t, ticks, ticks2) ==
    IF ticks - t.last_shot_time >= COOLDOWN_MS
    THEN [t EXCEPT
            !.bullets = Append(@, <<t.x, t.y>>),
            !.last_shot_time = ticks2]
    ELSE t

\* ticks: the clock read by can_shoot; ticks2: the clock read when the
\* timestamp is recorded (ticks2 >= ticks)
shoot(t, ticks, ticks2) ==
    IF can_shoot(t, ticks)
    THEN [t EXCEPT
            !.bullets = Append(@, <<t.x, IF t.is_player THEN t.y - 1 ELSE t.y + 1>>),
            !.last_shot_time = ticks2]
    ELSE t

\* update_bullets that also discards the projectiles reaching row 0
update_bullets_strict(t) ==
    LET moved == [i \in 1..Len(t.bullets) |->
                    <<t.bullets[i][1],
                      t.bullets[i][2] + (IF t.is_player THEN -1 ELSE 1)>>]
        keep(b) == 0 < b[2] /\ b[2] < GRID_SIZE
    IN  [t EXCEPT !.bullets = SelectSeq(moved, keep)]

\* update_bullets that advances the projectiles and keeps them all
update_bullets_no_filter(t) ==
    LET moved == [i \in 1..Len(t.bullets) |->
                    <<t.bullets[i][1],
                      t.bullets[i][2] + (IF t.is_player THEN -1 ELSE 1)>>]
    IN  [t EXCEPT !.bullets = moved]

update_bullets(t) ==
    LET moved == [i \in 1..Len(t.bullets) |->
                    <<t.bullets[i][1],
                      t.bullets[i][2] + (IF t.is_player THEN -1 ELSE 1)>>]
        keep(b) == 0 <= b[2] /\ b[2] < GRID_SIZE
    IN  [t EXCEPT !.bullets = SelectSeq(moved, keep)]

-----------------------------------------------------------------------------
(* class QLearningAgent *)

\* {a: 0 for a in ACTIONS}
ZeroRow == [a \in ActionSet |-> Zero]

get_state(a, p) == <<a.x, a.y, p.x, p.y>>

\* max(row.values())
MaxValue(row) ==
    CHOOSE v \in {row[a] : a \in DOMAIN row} :
        \A a \in DOMAIN row : RLeq(row[a], v)

\* the first key whose value is minimal (min instead of max)
ArgMinFirst(row) ==
    LET i == CHOOSE k \in 1..Len(Actions) :
                /\ \A m \in 1..Len(Actions) : RLeq(row[Actions[k]], row[Actions[m]])
                /\ \A m \in 1..(k - 1) : row[Actions[m]] # row[Actions[k]]
    IN  Actions[i]

\* max(row, key=row.get): the first key, in the order of ACTIONS, whose value
\* is maximal
ArgMaxFirst(row) ==
    LET best == MaxValue(row)
        i == CHOOSE k \in 1..Len(Actions) :
                /\ row[Actions[k]] = best
                /\ \A m \in 1..(k - 1) : row[Actions[m]] # best
    IN  Actions[i]

\* explore: the outcome of random.random() < EPSILON
\* pick:    the outcome of random.choice(ACTIONS)
choose_action(q, s, explore, pick) ==
    IF explore \/ s \notin DOMAIN q
    THEN pick
    ELSE ArgMaxFirst(q[s])

\* learn that rebuilds the table from scratch when a key is missing
learn_replace(q, old_s, a, reward, new_s) ==
    LET q0 == IF old_s \in DOMAIN q /\ new_s \in DOMAIN q THEN q ELSE <<>>
        q1 == IF old_s \in DOMAIN q0 THEN q0 ELSE q0 @@ (old_s :> ZeroRow)
        q2 == IF new_s \in DOMAIN q1 THEN q1 ELSE q1 @@ (new_s :> ZeroRow)
        old_q == q2[old_s][a]
        future_q == MaxValue(q2[new_s])
        updated_q ==
            RAdd(old_q,
                 RMul(LEARNING_RATE,
                      RSub(RAdd(FromInt(reward), RMul(DISCOUNT, future_q)),
                           old_q)))
    IN  [q2 EXCEPT ![old_s][a] = updated_q]

\* learn that subtracts the correction instead of adding it
learn_wrong_sign(q, old_s, a, reward, new_s) ==
    LET q1 == IF old_s \in DOMAIN q THEN q ELSE q @@ (old_s :> ZeroRow)
        q2 == IF new_s \in DOMAIN q1 THEN q1 ELSE q1 @@ (new_s :> ZeroRow)
        old_q == q2[old_s][a]
        future_q == MaxValue(q2[new_s])
        updated_q ==
            RSub(old_q,
                 RMul(LEARNING_RATE,
                      RSub(RAdd(FromInt(reward), RMul(DISCOUNT, future_q)),
                           old_q)))
    IN  [q2 EXCEPT ![old_s][a] = updated_q]

\* learn that takes the maximum over the row of old_s instead of new_s
learn_max_of_old(q, old_s, a, reward, new_s) ==
    LET q1 == IF old_s \in DOMAIN q THEN q ELSE q @@ (old_s :> ZeroRow)
        q2 == IF new_s \in DOMAIN q1 THEN q1 ELSE q1 @@ (new_s :> ZeroRow)
        old_q == q2[old_s][a]
        future_q == MaxValue(q2[old_s])
        updated_q ==
            RAdd(old_q,
                 RMul(LEARNING_RATE,
                      RSub(RAdd(FromInt(reward), RMul(DISCOUNT, future_q)),
                           old_q)))
    IN  [q2 EXCEPT ![old_s][a] = updated_q]

learn(q, old_s, a, reward, new_s) ==
    LET q1 == IF old_s \in DOMAIN q THEN q ELSE q @@ (old_s :> ZeroRow)
        q2 == IF new_s \in DOMAIN q1 THEN q1 ELSE q1 @@ (new_s :> ZeroRow)
        old_q == q2[old_s][a]
        future_q == MaxValue(q2[new_s])
        updated_q ==
            RAdd(old_q,
                 RMul(LEARNING_RATE,
                      RSub(RAdd(FromInt(reward), RMul(DISCOUNT, future_q)),
                           old_q)))
    IN  [q2 EXCEPT ![old_s][a] = updated_q]

-----------------------------------------------------------------------------
(* main(): helpers *)

RemoveAt(s, i) == SubSeq(s, 1, i - 1) \o SubSeq(s, i + 1, Len(s))

\* FirstHit that compares the column only
FirstHit_column_only(bullets, target) ==
    IF \E i \in 1..Len(bullets) : bullets[i][1] = target.x
    THEN CHOOSE i \in 1..Len(bullets) :
            /\ bullets[i][1] = target.x
            /\ \A k \in 1..(i - 1) : bullets[k][1] # target.x
    ELSE 0

\* index of the first bullet at the position of tank target, 0 when none
FirstHit(bullets, target) ==
    IF \E i \in 1..Len(bullets) : bullets[i] = <<target.x, target.y>>
    THEN CHOOSE i \in 1..Len(bullets) :
            /\ bullets[i] = <<target.x, target.y>>
            /\ \A k \in 1..(i - 1) : bullets[k] # <<target.x, target.y>>
    ELSE 0

\* the player-input section: the moves for the pressed keys, in the order
\* LEFT, RIGHT, UP, DOWN
PlayerMoves(t, keys) ==
    LET t1 == IF "K_LEFT"  \in keys THEN move(t,  "LEFT")  ELSE t
        t2 == IF "K_RIGHT" \in keys THEN move(t1, "RIGHT") ELSE t1
        t3 == IF "K_UP"    \in keys THEN move(t2, "UP")    ELSE t2
        t4 == IF "K_DOWN"  \in keys THEN move(t3, "DOWN")  ELSE t3
    IN  t4

Init ==
    /\ player = Tank(5, 9, TRUE)
    /\ ai = Tank(5, 0, FALSE)
    /\ player_pts = 0
    /\ ai_pts = 0
    /\ run = TRUE
    /\ winner = ""
    /\ state = <<>>
    /\ action = ""
    /\ q_table = <<>>
    /\ now = 0
    /\ pc = "while"
    /\ frame = 0
    /\ call = [op |-> "none"]
    /\ ncalls = 0

-----------------------------------------------------------------------------
(* main(): the steps of one frame, parameterised by the sets the inputs   *)
(* are drawn from                                                          *)

\* while run: ... / pygame.quit()
LoopGuardStep(maxFrames) ==
    /\ pc = "while"
    /\ run => frame < maxFrames
    /\ pc' = IF run THEN "events" ELSE "quit"
    /\ frame' = IF run THEN frame + 1 ELSE frame
    /\ UNCHANGED <<player, ai, player_pts, ai_pts, run, winner, state, action,
                   q_table, now, call, ncalls>>

\* an event loop that leaves the frame at once when it sees pygame.QUIT
EventsStep_break(times, quits) ==
    /\ pc = "events"
    /\ \E dt \in times, quit \in quits :
        /\ now' = now + dt
        /\ run' = IF quit THEN FALSE ELSE run
        /\ pc' = IF quit THEN "while" ELSE "input"
    /\ UNCHANGED <<player, ai, player_pts, ai_pts, winner, state, action,
                   q_table, frame, call, ncalls>>

\* clock.tick(10) and the event loop; dt: the time since the last tick,
\* quit: whether a pygame.QUIT event is in the queue
EventsStep(times, quits) ==
    /\ pc = "events"
    /\ \E dt \in times, quit \in quits :
        /\ now' = now + dt
        /\ run' = IF quit THEN FALSE ELSE run
    /\ pc' = "input"
    /\ UNCHANGED <<player, ai, player_pts, ai_pts, winner, state, action,
                   q_table, frame, call, ncalls>>

\* keys = pygame.key.get_pressed(); moves, then shoot
PlayerInputStep(keysets, jitters) ==
    /\ pc = "input"
    /\ \E keys \in keysets, j \in jitters :
        LET moved == PlayerMoves(player, keys)
            fires == "K_SPACE" \in keys /\ can_shoot(moved, now)
        IN  /\ player' = IF "K_SPACE" \in keys
                         THEN shoot(moved, now, now + j) ELSE moved
            /\ now' = IF fires THEN now + j ELSE now
    /\ pc' = "ai"
    /\ UNCHANGED <<ai, player_pts, ai_pts, run, winner, state, action,
                   q_table, frame, call, ncalls>>

\* an AI step that captures the state key after the AI has acted
AIDecisionStep_late_state(explores, picks, jitters) ==
    /\ pc = "ai"
    /\ \E explore \in explores, pick \in picks, j \in jitters :
        LET s == get_state(ai, player)
            a == choose_action(q_table, s, explore, pick)
            moved == IF a \in {"UP", "DOWN", "LEFT", "RIGHT"} THEN move(ai, a) ELSE ai
            fires == a = "SHOOT" /\ can_shoot(moved, now)
        IN  /\ state' = get_state(moved, player)
            /\ action' = a
            /\ ai' = IF a = "SHOOT" THEN shoot(moved, now, now + j) ELSE moved
            /\ now' = IF fires THEN now + j ELSE now
    /\ pc' = "bullets"
    /\ UNCHANGED <<player, player_pts, ai_pts, run, winner,
                   q_table, frame, call, ncalls>>

\* state = get_state; action = choose_action(state); move or shoot
AIDecisionStep(explores, picks, jitters) ==
    /\ pc = "ai"
    /\ \E explore \in explores, pick \in picks, j \in jitters :
        LET s == get_state(ai, player)
            a == choose_action(q_table, s, explore, pick)
            moved == IF a \in {"UP", "DOWN", "LEFT", "RIGHT"} THEN move(ai, a) ELSE ai
            fires == a = "SHOOT" /\ can_shoot(moved, now)
        IN  /\ state' = s
            /\ action' = a
            /\ ai' = IF a = "SHOOT" THEN shoot(moved, now, now + j) ELSE moved
            /\ now' = IF fires THEN now + j ELSE now
    /\ pc' = "bullets"
    /\ UNCHANGED <<player, player_pts, ai_pts, run, winner,
                   q_table, frame, call, ncalls>>

\* player.update_bullets(); ai.update_bullets()
UpdateBullets ==
    /\ pc = "bullets"
    /\ player' = update_bullets(player)
    /\ ai' = update_bullets(ai)
    /\ pc' = "hits"
    /\ UNCHANGED <<player_pts, ai_pts, run, winner, state, action,
                   q_table, now, frame, call, ncalls>>

\* a hit detection that tests the cells the projectiles had before
\* update_bullets advanced them
HitDetection_before_advance ==
    /\ pc = "hits"
    /\ LET back(t) == [i \in 1..Len(t.bullets) |->
                        <<t.bullets[i][1],
                          t.bullets[i][2] - (IF t.is_player THEN -1 ELSE 1)>>]
           ia == FirstHit(back(ai), player)
           ip == FirstHit(back(player), ai)
       IN  /\ ai' = IF ia = 0 THEN ai
                    ELSE [ai EXCEPT !.bullets = RemoveAt(@, ia)]
           /\ ai_pts' = IF ia = 0 THEN ai_pts ELSE ai_pts + 1
           /\ player' = IF ip = 0 THEN player
                        ELSE [player EXCEPT !.bullets = RemoveAt(@, ip)]
           /\ player_pts' = IF ip = 0 THEN player_pts ELSE player_pts + 1
    /\ pc' = "learn"
    /\ UNCHANGED <<run, winner, state, action, q_table, now, frame, call, ncalls>>

\* the two hit-detection loops: ai.bullets against the player, then
\* player.bullets against the ai
HitDetection ==
    /\ pc = "hits"
    /\ LET ia == FirstHit(ai.bullets, player)
           ip == FirstHit(player.bullets, ai)
       IN  /\ ai' = IF ia = 0 THEN ai
                    ELSE [ai EXCEPT !.bullets = RemoveAt(@, ia)]
           /\ ai_pts' = IF ia = 0 THEN ai_pts ELSE ai_pts + 1
           /\ player' = IF ip = 0 THEN player
                        ELSE [player EXCEPT !.bullets = RemoveAt(@, ip)]
           /\ player_pts' = IF ip = 0 THEN player_pts ELSE player_pts + 1
    /\ pc' = "learn"
    /\ UNCHANGED <<run, winner, state, action, q_table, now, frame, call, ncalls>>

\* a learning step that passes the reward 1
Learn_reward_one ==
    /\ pc = "learn"
    /\ q_table' = learn(q_table, state, action, 1, get_state(ai, player))
    /\ pc' = "wincheck"
    /\ UNCHANGED <<player, ai, player_pts, ai_pts, run, winner, state, action,
                   now, frame, call, ncalls>>

\* agent.learn(state, action, 0, agent.get_state(ai, player))
Learn ==
    /\ pc = "learn"
    /\ q_table' = learn(q_table, state, action, 0, get_state(ai, player))
    /\ pc' = "wincheck"
    /\ UNCHANGED <<player, ai, player_pts, ai_pts, run, winner, state, action,
                   now, frame, call, ncalls>>

\* a win check that compares with > instead of >=
WinCheck_strict ==
    /\ pc = "wincheck"
    /\ IF player_pts > WIN_SCORE \/ ai_pts > WIN_SCORE
       THEN /\ winner' = IF player_pts > WIN_SCORE
                         THEN "Player Wins!" ELSE "AI Wins!"
            /\ now' = now + 3000
            /\ run' = FALSE
       ELSE UNCHANGED <<winner, now, run>>
    /\ pc' = "while"
    /\ UNCHANGED <<player, ai, player_pts, ai_pts, state, action,
                   q_table, frame, call, ncalls>>

\* a win check that looks at the player's score only
WinCheck_player_only ==
    /\ pc = "wincheck"
    /\ IF player_pts >= WIN_SCORE
       THEN /\ winner' = "Player Wins!"
            /\ now' = now + 3000
            /\ run' = FALSE
       ELSE UNCHANGED <<winner, now, run>>
    /\ pc' = "while"
    /\ UNCHANGED <<player, ai, player_pts, ai_pts, state, action,
                   q_table, frame, call, ncalls>>

\* a win check that names the AI when the AI's score is at WIN_SCORE
WinCheck_ai_first ==
    /\ pc = "wincheck"
    /\ IF player_pts >= WIN_SCORE \/ ai_pts >= WIN_SCORE
       THEN /\ winner' = IF ai_pts >= WIN_SCORE
                         THEN "AI Wins!" ELSE "Player Wins!"
            /\ now' = now + 3000
            /\ run' = FALSE
       ELSE UNCHANGED <<winner, now, run>>
    /\ pc' = "while"
    /\ UNCHANGED <<player, ai, player_pts, ai_pts, state, action,
                   q_table, frame, call, ncalls>>

\* the win check; pygame.time.delay(3000) holds the final frame
WinCheck ==
    /\ pc = "wincheck"
    /\ IF player_pts >= WIN_SCORE \/ ai_pts >= WIN_SCORE
       THEN /\ winner' = IF player_pts >= WIN_SCORE
                         THEN "Player Wins!" ELSE "AI Wins!"
            /\ now' = now + 3000
            /\ run' = FALSE
       ELSE UNCHANGED <<winner, now, run>>
    /\ pc' = "while"
    /\ UNCHANGED <<player, ai, player_pts, ai_pts, state, action,
                   q_table, frame, call, ncalls>>

-----------------------------------------------------------------------------
(* Spec: main() with every input *)

\* the time clock.tick(10) lets pass: the frame period, or a slow frame
FrameTimes == {FRAME_MS, COOLDOWN_MS}

\* the ms that may pass between the two clock reads of one shoot() call
Jitters == {0, 1}

LoopGuard == LoopGuardStep(MaxFrames)

Events == EventsStep(FrameTimes, BOOLEAN)

PlayerInput == PlayerInputStep(SUBSET KEYS, Jitters)

AIDecision == AIDecisionStep(BOOLEAN, ActionSet, Jitters)

Next ==
    \/ LoopGuard
    \/ Events
    \/ PlayerInput
    \/ AIDecision
    \/ UpdateBullets
    \/ HitDetection
    \/ Learn
    \/ WinCheck

Spec == Init /\ [][Next]_vars

-----------------------------------------------------------------------------
(* SpecDuel: main() from the same initial state, with a scripted player    *)
(* (advance along column 5 to row 2, then fire or wait), an AI whose draws *)
(* are UP (clamped at row 0) or SHOOT and, once the player is in place,    *)
(* also DOWN (one step down to row 1 and back), and slow frames of one     *)
(* cooldown each, so that either tank can fire in every frame              *)

DuelKeySets ==
    IF player.y > 2 THEN {{"K_UP"}} ELSE {{}, {"K_SPACE"}}

DuelPicks ==
    IF ai.y > 0 THEN {"UP"}
    ELSE IF player.y > 2 THEN {"UP", "SHOOT"}
    ELSE {"UP", "DOWN", "SHOOT"}

DuelLoopGuard == LoopGuardStep(MaxDuelFrames)

DuelEvents == EventsStep({COOLDOWN_MS}, {FALSE})

DuelPlayerInput == PlayerInputStep(DuelKeySets, {0})

DuelAIDecision == AIDecisionStep(BOOLEAN, DuelPicks, {0})

NextDuel ==
    \/ DuelLoopGuard
    \/ DuelEvents
    \/ DuelPlayerInput
    \/ DuelAIDecision
    \/ UpdateBullets
    \/ HitDetection
    \/ Learn
    \/ WinCheck

SpecDuel == Init /\ [][NextDuel]_vars

-----------------------------------------------------------------------------
(* SpecEdge: main() from the same initial state, with a player that        *)
(* advances along column 5 to row 0 and there fires or waits, an AI whose  *)
(* random draws are DOWN and SHOOT, on any row (its greedy                 *)
(* action, on the all-zero table, is UP), and slow frames of one cooldown  *)
(* each: the tanks cross the field and fire from the opposing edge rows    *)

EdgeKeySets ==
    IF player.y > 0 THEN {{"K_UP"}} ELSE {{}, {"K_SPACE"}, {"K_UP", "K_SPACE"}}

EdgePicks == {"DOWN", "SHOOT"}

EdgeLoopGuard == LoopGuardStep(MaxEdgeFrames)

EdgeEvents == EventsStep({COOLDOWN_MS}, {FALSE})

EdgePlayerInput == PlayerInputStep(EdgeKeySets, {0})

EdgeAIDecision == AIDecisionStep(BOOLEAN, EdgePicks, {0})

NextEdge ==
    \/ EdgeLoopGuard
    \/ EdgeEvents
    \/ EdgePlayerInput
    \/ EdgeAIDecision
    \/ UpdateBullets
    \/ HitDetection
    \/ Learn
    \/ WinCheck

SpecEdge == Init /\ [][NextEdge]_vars

-----------------------------------------------------------------------------
(* SpecTank: the two Tank objects of main().  One of them, the tank under  *)
(* test (call.who), starts at any cell of the grid and receives arbitrary  *)
(* method calls while time passes arbitrarily                              *)

Cells == (0..(GRID_SIZE - 1)) \X (0..(GRID_SIZE - 1))

TheTank(who) == IF who = "player" THEN player ELSE ai

\* the harness assigns the tank who and leaves the other one alone
SetTank(who, t) ==
    /\ player' = IF who = "player" THEN t ELSE player
    /\ ai' = IF who = "ai" THEN t ELSE ai

Called(op, who, arg) ==
    /\ ncalls < MaxCalls
    /\ ncalls' = ncalls + 1
    /\ call' = [op |-> op, who |-> who, arg |-> arg]
    /\ UNCHANGED <<player_pts, ai_pts, run, winner, state, action, q_table,
                   pc, frame>>

InitTank ==
    /\ \E c \in Cells :
        \/ /\ player = Tank(c[1], c[2], TRUE)
           /\ ai = Tank(5, 0, FALSE)
           /\ call = [op |-> "none", who |-> "player", arg |-> ""]
        \/ /\ player = Tank(5, 9, TRUE)
           /\ ai = Tank(c[1], c[2], FALSE)
           /\ call = [op |-> "none", who |-> "ai", arg |-> ""]
    /\ player_pts = 0
    /\ ai_pts = 0
    /\ run = TRUE
    /\ winner = ""
    /\ state = <<>>
    /\ action = ""
    /\ q_table = <<>>
    /\ now = 0
    /\ pc = "while"
    /\ frame = 0
    /\ ncalls = 0

\* tank.move(direction)
CallMove ==
    \E who \in {call.who}, d \in {"UP", "DOWN", "LEFT", "RIGHT"} :
        /\ SetTank(who, move(TheTank(who), d))
        /\ now' = now
        /\ Called("move", who, d)

\* tank.shoot()
CallShoot ==
    \E who \in {call.who}, j \in Jitters :
        /\ SetTank(who, shoot(TheTank(who), now, now + j))
        /\ now' = IF can_shoot(TheTank(who), now) THEN now + j ELSE now
        /\ Called("shoot", who, "")

\* tank.update_bullets()
CallUpdateBullets ==
    \E who \in {call.who} :
        /\ SetTank(who, update_bullets(TheTank(who)))
        /\ now' = now
        /\ Called("update_bullets", who, "")

\* time passes between two calls
ClockAdvance ==
    \E dt \in FrameTimes :
        /\ now' = now + dt
        /\ UNCHANGED <<player, ai>>
        /\ Called("tick", call.who, "")

NextTank ==
    \/ CallMove
    \/ CallShoot
    \/ CallUpdateBullets
    \/ ClockAdvance

SpecTank == InitTank /\ [][NextTank]_vars

-----------------------------------------------------------------------------
(* SpecAgent: the QLearningAgent object from its constructor state, under  *)
(* arbitrary calls of learn (any reward) and choose_action                 *)

\* the state keys the harness passes: the first key of a game and the key
\* after the AI has moved down
AgentStates == {<<5, 0, 5, 9>>, <<5, 1, 5, 9>>}

Rewards == {-1, 0, 1}

InitAgent ==
    /\ player = Tank(5, 9, TRUE)
    /\ ai = Tank(5, 0, FALSE)
    /\ player_pts = 0
    /\ ai_pts = 0
    /\ run = TRUE
    /\ winner = ""
    /\ state = <<>>
    /\ action = ""
    /\ q_table = <<>>
    /\ now = 0
    /\ pc = "while"
    /\ frame = 0
    /\ call = [op |-> "none", who |-> "agent", arg |-> <<>>]
    /\ ncalls = 0

\* agent.learn(old_s, a, r, new_s)
CallLearn ==
    \E old_s \in AgentStates, a \in ActionSet, r \in Rewards, new_s \in AgentStates :
        /\ ncalls < MaxLearn
        /\ q_table' = learn(q_table, old_s, a, r, new_s)
        /\ call' = [op |-> "learn", who |-> "agent", arg |-> <<old_s, a, r, new_s>>]
        /\ ncalls' = ncalls + 1
        /\ UNCHANGED <<player, ai, player_pts, ai_pts, run, winner, state, action,
                       now, pc, frame>>

\* action = agent.choose_action(s)
CallChooseAction ==
    \E s \in AgentStates, explore \in BOOLEAN, pick \in ActionSet :
        /\ ncalls < MaxLearn
        /\ action' = choose_action(q_table, s, explore, pick)
        /\ call' = [op |-> "choose_action", who |-> "agent",
                    arg |-> <<s, explore, pick>>]
        /\ ncalls' = ncalls + 1
        /\ UNCHANGED <<player, ai, player_pts, ai_pts, run, winner, state,
                       q_table, now, pc, frame>>

NextAgent ==
    \/ CallLearn
    \/ CallChooseAction

SpecAgent == InitAgent /\ [][NextAgent]_vars

-----------------------------------------------------------------------------
(* Properties of the Tank class, checked under SpecTank *)

InGrid(n) == 0 <= n /\ n <= GRID_SIZE - 1

\* the tank who after the step
TankAfter(who) == IF who = "player" THEN player' ELSE ai'

\* the step is a call of method op by the harness
IsCall(op) == ncalls' = ncalls + 1 /\ call'.op = op

\* number of occurrences of cell c in the bullet list s
Count(s, c) == Cardinality({i \in 1..Len(s) : s[i] = c})

\* C1: in every reachable state the x and y of both tanks lie in
\* [0, GRID_SIZE-1]: no move, from any cell and in any direction, leaves the grid
C1_TanksStayInGrid ==
    /\ InGrid(player.x) /\ InGrid(player.y)
    /\ InGrid(ai.x) /\ InGrid(ai.y)

\* the player fired from column GRID_SIZE-1 (its projectile is still in the
\* cell in front of it) and was then told to move RIGHT: the move was clamped
C1_Witness ==
    /\ call.who = "player" /\ call.op = "move" /\ call.arg = "RIGHT"
    /\ ncalls = 3
    /\ player.x = GRID_SIZE - 1
    /\ player.bullets = <<<<GRID_SIZE - 1, player.y - 1>>>>

\* C2: a shoot() call during the cooldown changes nothing; a projectile is
\* only ever created, one at a time, when at least COOLDOWN_MS have passed
\* since the tank's last-shot timestamp, which is then set to the current
\* time and changes at no other moment: two creations by one tank are at
\* least COOLDOWN_MS apart, and two calls within one window create at most one
C2_ShootRespectsCooldown ==
    [][\A who \in {"player", "ai"} :
        LET t  == TheTank(who)
            t2 == TankAfter(who)
        IN  /\ (IsCall("shoot") /\ call'.who = who
                    /\ now - t.last_shot_time < COOLDOWN_MS)
                => (t2 = t /\ now' = now)
            /\ Len(t2.bullets) > Len(t.bullets)
                => /\ Len(t2.bullets) = Len(t.bullets) + 1
                   /\ now - t.last_shot_time >= COOLDOWN_MS
                   /\ t2.last_shot_time = now'
            /\ t2.last_shot_time # t.last_shot_time
                => Len(t2.bullets) = Len(t.bullets) + 1
            /\ t.last_shot_time <= now
            /\ now <= now'
      ]_vars

\* the player has fired once, time has passed but less than the cooldown,
\* and the last call, a shoot(), was ignored
C2_Witness ==
    /\ call.who = "player" /\ call.op = "shoot"
    /\ Len(player.bullets) = 1
    /\ player.last_shot_time >= COOLDOWN_MS
    /\ now > player.last_shot_time
    /\ now - player.last_shot_time < COOLDOWN_MS

\* C3: update_bullets keeps exactly the projectiles whose row, after the
\* advance by one (minus one for the player, plus one for the AI), is in
\* [0, GRID_SIZE-1], each with that row and its column unchanged, and
\* discards exactly the others; position and timestamp are untouched
C3_UpdateBulletsFilters ==
    [][IsCall("update_bullets") =>
        LET who == call'.who
            t   == TheTank(who)
            t2  == TankAfter(who)
            adv(b) == <<b[1], IF who = "player" THEN b[2] - 1 ELSE b[2] + 1>>
            cells == {adv(t.bullets[i]) : i \in 1..Len(t.bullets)}
                     \cup {t2.bullets[i] : i \in 1..Len(t2.bullets)}
        IN  /\ \A c \in cells :
                Count(t2.bullets, c) =
                    IF InGrid(c[2])
                    THEN Cardinality({i \in 1..Len(t.bullets) : adv(t.bullets[i]) = c})
                    ELSE 0
            /\ t2.x = t.x /\ t2.y = t.y
            /\ t2.last_shot_time = t.last_shot_time
      ]_vars

\* the player fired twice from different rows; the last update_bullets call
\* discarded the older projectile (it left the grid at row 0) and kept the other
C3_Witness ==
    /\ call.who = "player" /\ call.op = "update_bullets"
    /\ ncalls = 6
    /\ player.y = 2
    /\ player.last_shot_time >= 2 * COOLDOWN_MS
    /\ player.bullets = <<<<player.x, 0>>>>

\* C10: a shoot() call made when the cooldown has elapsed appends exactly one
\* projectile, at the tank's column and one row toward the opponent (y-1 for
\* the player, y+1 for the AI), and records the current time as the
\* last-shot timestamp; nothing else of the tank changes
C10_ShootCreatesProjectile ==
    [][\A who \in {"player", "ai"} :
        LET t  == TheTank(who)
            t2 == TankAfter(who)
        IN  (IsCall("shoot") /\ call'.who = who
                /\ now - t.last_shot_time >= COOLDOWN_MS)
            => /\ t2.bullets = t.bullets \o
                    <<<<t.x, IF who = "player" THEN t.y - 1 ELSE t.y + 1>>>>
               /\ t2.last_shot_time = now'
               /\ t2.x = t.x /\ t2.y = t.y /\ t2.is_player = t.is_player
      ]_vars

\* the player at (5,9) let time pass, fired (projectile at (5,8)) and called
\* update_bullets once: the projectile is at (5,7)
C10_Witness ==
    /\ call.who = "player" /\ call.op = "update_bullets"
    /\ ncalls = 3
    /\ player.x = 5 /\ player.y = 9
    /\ player.bullets = <<<<5, 7>>>>

\* the cell one step from (x, y) in the given direction
Shifted(x, y, direction) ==
    <<x + (IF direction = "LEFT" THEN -1 ELSE IF direction = "RIGHT" THEN 1 ELSE 0),
      y + (IF direction = "UP" THEN -1 ELSE IF direction = "DOWN" THEN 1 ELSE 0)>>

\* C11: a move() call puts the tank on the cell one step in the requested
\* direction exactly when that cell is in the grid, and otherwise leaves the
\* position as it was; the coordinate of the other axis, the projectile list
\* and the last-shot timestamp are unchanged either way
C11_MoveOneCellOrNothing ==
    [][IsCall("move") =>
        LET who == call'.who
            t   == TheTank(who)
            t2  == TankAfter(who)
            c   == Shifted(t.x, t.y, call'.arg)
        IN  /\ <<t2.x, t2.y>> = IF InGrid(c[1]) /\ InGrid(c[2]) THEN c ELSE <<t.x, t.y>>
            /\ call'.arg \in {"UP", "DOWN"} => t2.x = t.x
            /\ call'.arg \in {"LEFT", "RIGHT"} => t2.y = t.y
            /\ t2.bullets = t.bullets
            /\ t2.last_shot_time = t.last_shot_time
            /\ t2.is_player = t.is_player
            /\ now' = now
      ]_vars

\* the AI let time pass, fired (projectile one row below it) and moved LEFT
\* into column 0: the projectile, still in column 1, and the timestamp of the
\* shot are as the shot left them
C11_Witness ==
    /\ call.who = "ai" /\ call.op = "move" /\ call.arg = "LEFT"
    /\ ncalls = 3
    /\ ai.x = 0
    /\ ai.bullets = <<<<1, ai.y + 1>>>>
    /\ ai.last_shot_time >= COOLDOWN_MS

\* C19: both tanks are constructed with last_shot_time = 0; while the clock
\* is below COOLDOWN_MS can_shoot() is false for both, every shoot() call
\* leaves the tank as it was, and no projectile exists; a projectile is only
\* ever created at a clock time of COOLDOWN_MS or more
C19_NoShotBeforeCooldown ==
    /\ [](/\ ncalls = 0 => (player.last_shot_time = 0 /\ ai.last_shot_time = 0)
          /\ now < COOLDOWN_MS =>
                \A t \in {player, ai} :
                    /\ ~can_shoot(t, now)
                    /\ t.bullets = <<>>
                    /\ t.last_shot_time = 0)
    /\ [][\A who \in {"player", "ai"} :
            /\ (IsCall("shoot") /\ call'.who = who /\ now < COOLDOWN_MS)
                    => (TankAfter(who) = TheTank(who) /\ now' = now)
            /\ Len(TankAfter(who).bullets) > Len(TheTank(who).bullets)
                    => now >= COOLDOWN_MS
         ]_vars

\* half a second after the start the AI was told to shoot: the call was
\* ignored, the AI has no projectile and its timestamp is still 0
C19_Witness ==
    /\ call.who = "ai" /\ call.op = "shoot"
    /\ now = 5 * FRAME_MS
    /\ ai.bullets = <<>>
    /\ ai.last_shot_time = 0

-----------------------------------------------------------------------------
(* Properties of the frame loop, checked under SpecDuel *)

\* the effect of one hit-detection loop on the shooter (t before, t2 after),
\* its score (pts before, pts2 after) and the opposing tank opp
HitEffect(t, t2, pts, pts2, opp) ==
    LET pos == <<opp.x, opp.y>>
        n   == Len(t.bullets)
    IN  /\ IF \E i \in 1..n : t.bullets[i] = pos
           THEN /\ pts2 = pts + 1
                /\ \E i \in 1..n :
                    /\ t.bullets[i] = pos
                    /\ t2.bullets = [j \in 1..(n - 1) |->
                            IF j < i THEN t.bullets[j] ELSE t.bullets[j + 1]]
           ELSE /\ pts2 = pts
                /\ t2.bullets = t.bullets
        /\ t2.x = t.x /\ t2.y = t.y
        /\ t2.last_shot_time = t.last_shot_time

\* C4: in the hit-detection step, a tank whose list holds a projectile at the
\* opposing tank's position scores exactly 1 and loses that one projectile
\* (the others are kept); without a match score and list are unchanged.  The
\* scores change in no other step, so each rises by at most 1 per frame
C4_HitScoresOnce ==
    [][/\ (pc = "hits" /\ pc' = "learn")
            => /\ HitEffect(ai, ai', ai_pts, ai_pts', player)
               /\ HitEffect(player, player', player_pts, player_pts', ai)
       /\ (player_pts' # player_pts \/ ai_pts' # ai_pts)
            => (pc = "hits" /\ pc' = "learn")
       /\ pc' = "hits" => (pc = "bullets" /\ frame' = frame)
       /\ frame' # frame => (pc = "while" /\ pc' = "events")
      ]_vars

\* frame 8: the AI stands at (5,0), the player at (5,2) has fired in this
\* frame, its projectile reached (5,0), the player scored its first point and
\* the projectile is gone
C4_Witness ==
    /\ pc = "learn" /\ frame = 8
    /\ ai.x = 5 /\ ai.y = 0
    /\ player.x = 5 /\ player.y = 2
    /\ player.last_shot_time = now
    /\ player.bullets = <<>>
    /\ player_pts = 1

Won == player_pts >= WIN_SCORE \/ ai_pts >= WIN_SCORE

\* C5: the scores start at (0,0); once a score has reached WIN_SCORE the
\* frame in progress is the last one: only its learning step and win check
\* remain, then the loop guard fails; no frame starts and neither the tanks
\* nor the scores change any more
C5_WinEndsLoop ==
    /\ [](frame = 0 => (player_pts = 0 /\ ai_pts = 0))
    /\ [](Won => \/ pc \in {"learn", "wincheck"}
                 \/ (pc \in {"while", "quit"} /\ ~run))
    /\ [][Won => /\ frame' = frame
                 /\ player' = player /\ ai' = ai
                 /\ player_pts' = player_pts /\ ai_pts' = ai_pts
                 /\ state' = state /\ action' = action
                 /\ q_table' # q_table => pc = "learn"
                 /\ pc' \in {"wincheck", "while", "quit"}
         ]_vars

\* the AI reached WIN_SCORE first and main() has left the loop
C5_Witness ==
    /\ pc = "quit" /\ ~run
    /\ ai_pts = WIN_SCORE /\ player_pts < WIN_SCORE
    /\ winner = "AI Wins!"

IsKey(k) == Len(k) = 4 /\ \A i \in 1..4 : InGrid(k[i])

\* C8: the table is empty before the first frame; keys are only ever added,
\* by the learning step, and only the frame's two state keys; a row that
\* appears has exactly the five actions, all zero; every key is a 4-tuple of
\* grid coordinates, so there are never more than GRID_SIZE^4 keys
C8_TableGrowsLazily ==
    /\ [](frame = 0 => DOMAIN q_table = {})
    /\ [](/\ \A k \in DOMAIN q_table :
                IsKey(k) /\ DOMAIN q_table[k] = ActionSet
          /\ Cardinality(DOMAIN q_table) <= GRID_SIZE * GRID_SIZE * GRID_SIZE * GRID_SIZE)
    /\ [][/\ DOMAIN q_table \subseteq DOMAIN q_table'
          /\ \A k \in DOMAIN q_table' \ DOMAIN q_table :
                /\ pc = "learn"
                /\ k \in {state, get_state(ai, player)}
                /\ \A a \in ActionSet : q_table'[k][a] = Zero
          /\ pc = "learn" => {state, get_state(ai, player)} \subseteq DOMAIN q_table'
         ]_vars

\* the table holds the eight keys the duel visits, and the last learning
\* step, with old state (5,1,5,2) and new state (5,0,5,2) both present
\* already, added none
C8_Witness ==
    /\ pc = "wincheck"
    /\ state = <<5, 1, 5, 2>>
    /\ get_state(ai, player) = <<5, 0, 5, 2>>
    /\ Cardinality(DOMAIN q_table) = 8

-----------------------------------------------------------------------------
(* Properties of the QLearningAgent class, checked under SpecAgent *)

\* the value of (k, b) in table q, an absent key counting as a row of zeros
QValue(q, k, b) == IF k \in DOMAIN q THEN q[k][b] ELSE Zero

\* the largest value of row k of table q
QMax(q, k) ==
    CHOOSE v \in {QValue(q, k, b) : b \in ActionSet} :
        \A b \in ActionSet : ~RLess(v, QValue(q, k, b))

\* (180*o + 20*r + 19*f) / 200, which is o + 1/10 * (r + 19/20 * f - o)
ClosedForm(o, r, f) ==
    LET L == LCM(o[2], f[2])
    IN  Norm(<<180 * o[1] * (L \div o[2]) + 20 * r * L + 19 * f[1] * (L \div f[2]),
               200 * L>>)

\* x lies strictly between a and b
StrictlyBetween(x, a, b) ==
    \/ RLess(a, x) /\ RLess(x, b)
    \/ RLess(b, x) /\ RLess(x, a)

\* the target of a learn call with reward 0: DISCOUNT * max Q(new_s, .)
Target(q, new_s) == <<19 * QMax(q, new_s)[1], 20 * QMax(q, new_s)[2]>>

SameValue(a, b) == ~RLess(a, b) /\ ~RLess(b, a)

C7_LearnUpdatesOneEntry ==
    [][IsCall("learn") =>
        LET old_s == call'.arg[1]
            a     == call'.arg[2]
            r     == call'.arg[3]
            new_s == call'.arg[4]
        IN  /\ DOMAIN q_table' = DOMAIN q_table \cup {old_s, new_s}
            /\ \A k \in DOMAIN q_table' :
                /\ DOMAIN q_table'[k] = ActionSet
                /\ \A b \in ActionSet :
                    q_table'[k][b] =
                        IF k = old_s /\ b = a
                        THEN ClosedForm(QValue(q_table, old_s, a), r,
                                        QMax(q_table, new_s))
                        ELSE QValue(q_table, k, b)
      ]_vars

\* learn((5,0,5,9), "UP", 1, .) made Q = 1/10 there; then
\* learn((5,1,5,9), "DOWN", 0, (5,0,5,9)) inserted the row of (5,1,5,9) and
\* set its entry DOWN to 1/10 * 19/20 * 1/10 = 19/2000
C7_Witness ==
    /\ call.op = "learn" /\ ncalls = 2
    /\ call.arg = <<<<5, 1, 5, 9>>, "DOWN", 0, <<5, 0, 5, 9>>>>
    /\ q_table[<<5, 0, 5, 9>>]["UP"] = <<1, 10>>
    /\ q_table[<<5, 1, 5, 9>>]["DOWN"] = <<19, 2000>>
    /\ q_table[<<5, 1, 5, 9>>]["UP"] = Zero

\* C9: choose_action(s) leaves the table as it is (an unseen s is not
\* inserted) and returns one of the five actions: the random pick on the
\* epsilon branch or when s is unseen, otherwise an action whose value in
\* the row of s is maximal
C9_ChooseActionIsPure ==
    [][IsCall("choose_action") =>
        LET s       == call'.arg[1]
            explore == call'.arg[2]
            pick    == call'.arg[3]
        IN  /\ q_table' = q_table
            /\ action' \in ActionSet
            /\ (explore \/ s \notin DOMAIN q_table) => action' = pick
            /\ (~explore /\ s \in DOMAIN q_table)
                => \A b \in ActionSet : ~RLess(q_table[s][action'], q_table[s][b])
      ]_vars

\* the greedy branch on a seen state whose best action is DOWN, not the
\* first action and not the random pick
C9_Witness ==
    /\ call.op = "choose_action" /\ ncalls = 2
    /\ call.arg[2] = FALSE /\ call.arg[3] = "UP"
    /\ call.arg[1] \in DOMAIN q_table
    /\ q_table[call.arg[1]]["DOWN"] = <<1, 10>>
    /\ action = "DOWN"

\* an unseen state was passed to choose_action on the greedy branch: the
\* random pick was returned and the table is still empty
C9_WitnessUnseen ==
    /\ call.op = "choose_action" /\ ncalls = 1
    /\ call.arg[2] = FALSE
    /\ action = call.arg[3]
    /\ DOMAIN q_table = {}

-----------------------------------------------------------------------------
(* Properties of the frame loop, checked under Spec *)

\* the step after pc in the body of the loop
NextStep ==
    [events |-> "input", input |-> "ai", ai |-> "bullets", bullets |-> "hits",
     hits |-> "learn", learn |-> "wincheck", wincheck |-> "while"]

\* C12: run is cleared by a QUIT event only in the event step, once per
\* frame, and is read only by the loop guard: after the event step the frame
\* goes on through player input, AI action, projectile advance, hit
\* detection, learning and win check, each once and in this order, whatever
\* run is; then the guard, reading run = FALSE, leaves the loop, and no
\* further frame starts
C12_QuitEndsLoopAfterFrame ==
    /\ [][/\ (run /\ ~run') => pc \in {"events", "wincheck"}
          /\ ~run => ~run'
          /\ pc \in DOMAIN NextStep => pc' = NextStep[pc]
          /\ pc = "while" => pc' = IF run THEN "events" ELSE "quit"
          /\ pc # "quit"
          /\ ~run => frame' = frame
         ]_vars
    /\ [](pc \in {"events", "quit"} => run = (pc = "events"))

\* a QUIT event arrived in the first frame; in that frame, after it, the
\* player moved, the AI moved, the learning step entered the frame's two
\* keys in the table, nobody has won, and main() has left the loop
C12_Witness ==
    /\ pc = "quit" /\ ~run /\ winner = ""
    /\ frame = 1
    /\ <<player.x, player.y>> = <<4, 8>>
    /\ state = <<5, 0, 4, 8>>
    /\ <<ai.x, ai.y>> = <<6, 0>>
    /\ DOMAIN q_table = {<<5, 0, 4, 8>>, <<6, 0, 4, 8>>}

\* the cell the AI is on after taking action a on cell (x, y)
AfterAction(x, y, a) ==
    LET c == Shifted(x, y, a)
    IN  IF InGrid(c[1]) /\ InGrid(c[2]) THEN c ELSE <<x, y>>

\* C14: the table is touched once per frame, by the learning step, which
\* comes after hit detection; the step uses the key `state` and the action
\* `action` that the AI step of the same frame stored, `state` being the key
\* of the positions after the player's input and before the AI's action, the
\* key of the positions after the AI's action as new state, and reward 0
\* (the updated entry is 0).  So at the learning step the player coordinates
\* of both keys are equal, and the AI coordinates of the new key are those of
\* the old one after `action`: at most one cell away along one axis
C14_LearnOncePerFrame ==
    /\ [][/\ q_table' # q_table => pc = "learn"
          /\ pc' = "learn" => (pc = "hits" /\ frame' = frame)
          /\ pc = "learn" =>
                /\ pc' = "wincheck"
                /\ DOMAIN q_table' = DOMAIN q_table \cup {state, get_state(ai, player)}
                /\ q_table'[state][action] = Zero
          /\ pc = "ai" =>
                /\ state' = <<ai.x, ai.y, player.x, player.y>>
                /\ action' \in ActionSet
                /\ <<ai'.x, ai'.y>> = AfterAction(ai.x, ai.y, action')
                /\ <<player'.x, player'.y>> = <<player.x, player.y>>
          /\ pc' = "ai" => pc = "input"
          /\ pc # "ai" => (state' = state /\ action' = action)
          /\ pc \in {"bullets", "hits", "learn"} =>
                /\ <<ai'.x, ai'.y>> = <<ai.x, ai.y>>
                /\ <<player'.x, player'.y>> = <<player.x, player.y>>
         ]_vars
    /\ [](pc = "learn" =>
            LET new == get_state(ai, player)
            IN  /\ new[3] = state[3] /\ new[4] = state[4]
                /\ <<new[1], new[2]>> = AfterAction(state[1], state[2], action)
                /\ Abs(new[1] - state[1]) + Abs(new[2] - state[2]) <= 1)

\* first frame: the player moved to (4,8), then the key (5,0,4,8) was
\* captured, the AI went DOWN to (5,1), and the learning step entered this
\* key and the new key (5,1,4,8) in the table
C14_Witness ==
    /\ pc = "wincheck" /\ frame = 1
    /\ state = <<5, 0, 4, 8>>
    /\ action = "DOWN"
    /\ get_state(ai, player) = <<5, 1, 4, 8>>
    /\ DOMAIN q_table = {<<5, 0, 4, 8>>, <<5, 1, 4, 8>>}

-----------------------------------------------------------------------------
(* Further properties of the frame loop, checked under SpecDuel *)

\* C13: in every reachable state of the game every entry of the action-value
\* table is 0, and a step changes the table only by adding keys
C13_TableAllZero ==
    /\ [](\A k \in DOMAIN q_table : \A a \in ActionSet : q_table[k][a] = Zero)
    /\ [][\A k \in DOMAIN q_table : k \in DOMAIN q_table' /\ q_table'[k] = q_table[k]]_vars

\* both tanks have scored, the learning step of that frame has run on rows
\* that were present already (the AI is back at (5,0), the player at (5,2)),
\* and the AI's action of the frame was the greedy one
C13_Witness ==
    /\ pc = "wincheck"
    /\ player_pts >= 1 /\ ai_pts >= 1
    /\ state = <<5, 0, 5, 2>> /\ get_state(ai, player) = state
    /\ state \in DOMAIN q_table
    /\ action = "UP"
    /\ Cardinality(DOMAIN q_table) = 8

\* C15: both scores are integers in [0, WIN_SCORE] in every reachable state,
\* and no step lowers either of them
C15_ScoresBounded ==
    /\ [](player_pts \in 0..WIN_SCORE /\ ai_pts \in 0..WIN_SCORE)
    /\ [][player_pts' >= player_pts /\ ai_pts' >= ai_pts]_vars

\* the player's score has just reached WIN_SCORE in the hit-detection step,
\* after the AI has scored some points of its own
C15_Witness ==
    /\ pc = "learn"
    /\ player_pts = WIN_SCORE
    /\ ai_pts \in 1..(WIN_SCORE - 1)

\* how many rows projectile b is ahead of its shooter t, in firing direction
Ahead(t, b) == IF t.is_player THEN t.y - b[2] ELSE b[2] - t.y

\* the cell one row beyond tank t for a projectile of the opposing tank
Beyond(t) == <<t.x, IF t.is_player THEN t.y + 1 ELSE t.y - 1>>

\* tank t is in the cell directly in front of shooter s
InFrontOf(t, s) == t.x = s.x /\ Ahead(s, <<t.x, t.y>>) = 1

\* C17: when hit detection runs, and from then until the tank acts in the
\* next frame, every projectile is at least two rows ahead of its shooter.
\* In the hit-detection step a shooter whose opponent is directly in front
\* of it (same column, adjacent row) scores nothing and keeps its
\* projectiles, the one fired in this frame included; and the projectiles
\* that are one row beyond the opposing tank, among them those that have
\* exchanged cells with it in this frame, all stay in the list: passing
\* through is no hit
C17_NoHitAtCloseRange ==
    /\ [](/\ pc \notin {"ai", "bullets"} =>
                \A i \in 1..Len(player.bullets) : Ahead(player, player.bullets[i]) >= 2
          /\ pc # "bullets" =>
                \A i \in 1..Len(ai.bullets) : Ahead(ai, ai.bullets[i]) >= 2)
    /\ [][pc = "hits" =>
            /\ InFrontOf(ai, player) =>
                    (player_pts' = player_pts /\ player'.bullets = player.bullets)
            /\ InFrontOf(player, ai) =>
                    (ai_pts' = ai_pts /\ ai'.bullets = ai.bullets)
            /\ Count(player'.bullets, Beyond(ai)) = Count(player.bullets, Beyond(ai))
            /\ Count(ai'.bullets, Beyond(player)) = Count(ai.bullets, Beyond(player))
         ]_vars

\* the AI stepped down to (5,1), directly in front of the player at (5,2),
\* and the player fired in this frame: after hit detection the projectile is
\* at (5,0), behind the AI, and the player has no point
C17_Witness ==
    /\ pc = "learn"
    /\ <<ai.x, ai.y>> = <<5, 1>> /\ <<player.x, player.y>> = <<5, 2>>
    /\ player.last_shot_time = now
    /\ player.bullets = <<<<5, 0>>>>
    /\ player_pts = 0

\* frame 7: the AI's projectile was at (5,2) and the player at (5,3); the
\* player moved up to (5,2), the projectile advanced to (5,3): they have
\* exchanged cells, the projectile is still in the list and the AI has no point
C17_WitnessExchange ==
    /\ pc = "learn" /\ frame = 7
    /\ <<player.x, player.y>> = <<5, 2>>
    /\ ai.bullets = <<<<5, 3>>>>
    /\ ai_pts = 0

\* C18: the two hit tests of a frame are independent, each tank scoring
\* exactly when one of its projectiles is on the opposing tank, so both may
\* score in one frame; the win check names the player whenever player_pts
\* has reached WIN_SCORE, whatever ai_pts is, and names the AI only when
\* ai_pts has reached WIN_SCORE and player_pts has not; no other step names
\* a winner
C18_PlayerWinsTies ==
    /\ [][/\ pc = "hits" =>
                /\ ai_pts' = ai_pts +
                      (IF Count(ai.bullets, <<player.x, player.y>>) > 0 THEN 1 ELSE 0)
                /\ player_pts' = player_pts +
                      (IF Count(player.bullets, <<ai.x, ai.y>>) > 0 THEN 1 ELSE 0)
          /\ pc = "wincheck" =>
                winner' = IF player_pts >= WIN_SCORE THEN "Player Wins!"
                          ELSE IF ai_pts >= WIN_SCORE THEN "AI Wins!"
                          ELSE ""
          /\ winner' # winner => pc = "wincheck"
         ]_vars
    /\ [](/\ winner \in {"", "Player Wins!", "AI Wins!"}
          /\ winner = "Player Wins!" => player_pts >= WIN_SCORE
          /\ winner = "AI Wins!" => (ai_pts >= WIN_SCORE /\ player_pts < WIN_SCORE))

\* both tanks scored their last point in the same frame, both scores are at
\* WIN_SCORE, and the win check has named the player
C18_Witness ==
    /\ pc = "while" /\ ~run
    /\ player_pts = WIN_SCORE /\ ai_pts = WIN_SCORE
    /\ winner = "Player Wins!"

-----------------------------------------------------------------------------
(* Properties of the frame loop, checked under SpecEdge *)

OutOfGrid(b) == ~(InGrid(b[1]) /\ InGrid(b[2]))

\* the indices of the projectiles of tank t that are outside the grid
Strays(t) == {i \in 1..Len(t.bullets) : OutOfGrid(t.bullets[i])}

\* tank t, on its opposing edge row, has fired in this frame: the stray is
\* the newest projectile, in the tank's column, one row beyond the edge, and
\* the cooldown is running again
StrayOfEdgeShot(t) ==
    /\ t.y = IF t.is_player THEN 0 ELSE GRID_SIZE - 1
    /\ Strays(t) = {Len(t.bullets)}
    /\ t.bullets[Len(t.bullets)] = <<t.x, IF t.is_player THEN -1 ELSE GRID_SIZE>>
    /\ t.last_shot_time > 0
    /\ ~can_shoot(t, now)

\* C16: outside the window between a tank's shoot() and the update_bullets
\* of the same frame every projectile is in the grid; inside the window, a
\* projectile outside the grid is the one just fired by a tank on its
\* opposing edge row (player on row 0, AI on row GRID_SIZE-1), with the
\* cooldown restarted; update_bullets discards it, without a score, before
\* the hit detection of the frame
C16_StraysOnlyBeforeUpdate ==
    /\ [](/\ pc \notin {"ai", "bullets"} => Strays(player) = {}
          /\ pc # "bullets" => Strays(ai) = {}
          /\ Strays(player) # {} => StrayOfEdgeShot(player)
          /\ Strays(ai) # {} => StrayOfEdgeShot(ai))
    /\ [][/\ (Strays(player') # {} /\ Strays(player) = {})
                => (pc = "input" /\ Len(player'.bullets) = Len(player.bullets) + 1)
          /\ (Strays(ai') # {} /\ Strays(ai) = {})
                => (pc = "ai" /\ Len(ai'.bullets) = Len(ai.bullets) + 1)
          /\ pc = "bullets"
                => /\ Strays(player') = {} /\ Strays(ai') = {}
                   /\ player_pts' = player_pts /\ ai_pts' = ai_pts
                   /\ player'.last_shot_time = player.last_shot_time
                   /\ ai'.last_shot_time = ai.last_shot_time
                   /\ pc' = "hits"
         ]_vars

\* both tanks have crossed the field and fired in the same frame from their
\* opposing edge rows: before update_bullets each list ends with a projectile
\* one row outside the grid
C16_Witness ==
    /\ pc = "bullets"
    /\ player.y = 0 /\ ai.y = GRID_SIZE - 1
    /\ player.bullets = <<<<5, -1>>>>
    /\ Len(ai.bullets) >= 1 /\ ai.bullets[Len(ai.bullets)] = <<5, GRID_SIZE>>
    /\ player.last_shot_time = now /\ ai.last_shot_time = now

\* the same frame after hit detection: the two projectiles are gone, no
\* score has changed, and neither tank can fire before the cooldown is over
C16_WitnessDiscarded ==
    /\ pc = "learn"
    /\ player.y = 0 /\ ai.y = GRID_SIZE - 1
    /\ player.bullets = <<>> /\ ai.bullets = <<>>
    /\ player.last_shot_time = now /\ ai.last_shot_time = now
    /\ player_pts = 0 /\ ai_pts = 0

====
